---- MODULE Spec2Model ----
(***************************************************************************)
(* The GenLayer intelligent contracts of this repository as one state      *)
(* machine.  A deployment holds exactly one contract (active); each public *)
(* method is one action.  Strings are modelled by what the code reads of   *)
(* them (identity, length, surrounding whitespace), JSON texts by their    *)
(* key order, whitespace and members, so that json.loads / json.dumps are  *)
(* real conversions.                                                       *)
(***************************************************************************)
EXTENDS Integers, Sequences, FiniteSets, TLC

VARIABLES
    active,          \* the contract class this deployment instantiates
    disputes,        \* DisputeResolution.disputes : TreeMap[str, str]
    evaluations,     \* DAOProposalEvaluator.evaluations : TreeMap[str, str]
    dao_evaluations, \* DaoProposalEvaluator.evaluations : TreeMap[str, str]
    latest_message,  \* FriendlyGuestbook.latest_message
    latest_sender,   \* FriendlyGuestbook.latest_sender
    total_notarizations, \* AINotary.total_notarizations : u256
    total_checks,    \* VibeCheck.total_checks : u256
    total_reviews,   \* CodeReviewJudge.total_reviews : u256
    fetches,         \* the URLs gl.nondet.web.render was called on so far
    last,            \* the call that made the last step: inputs, outcome, return value
    history,         \* per ledger key: the record the committing call returned, and the number of writes
    submitted,       \* per ledger key: the text and the arguments of the committing call (Spec only)
    pc,              \* position of each local caller (SpecConc only)
    loc              \* locals of each local caller (SpecConc only)

vars == <<active, disputes, evaluations, dao_evaluations, latest_message,
          latest_sender, total_notarizations, total_checks, total_reviews, fetches, last,
          history, submitted,
          pc, loc>>

(***************************************************************************)
(* Strings: s names the content, len is len(x), pad the number of leading  *)
(* and trailing whitespace characters that x.strip() removes.              *)
(***************************************************************************)
Str(s, n, p) == [s |-> s, len |-> n, pad |-> p]

StripLen(x) == x.len - x.pad

EmptyStr == Str("", 0, 0)

\* Python truthiness of a str: "not x" is true exactly for the empty string.
Falsy(x) == x.len = 0

(***************************************************************************)
(* JSON.  A member value is [t, n, s]: its Python type after json.loads,   *)
(* its number and its text.  A dict is the sequence of its <<key, value>>  *)
(* pairs in insertion order (Python dicts keep it).  A text is what a      *)
(* string holds: an object with its members in written order and its       *)
(* whitespace style, a list, or something json.loads rejects.              *)
(***************************************************************************)
VInt(n) == [t |-> "int", n |-> n, s |-> ""]

VStr(s) == [t |-> "str", n |-> 0, s |-> s]

VList(s) == [t |-> "list", n |-> 0, s |-> s]

\* A nested object: s names its key set, n the value all its members hold.
VObj(s, n) == [t |-> "obj", n |-> n, s |-> s]

ObjText(pairs, ws) == [kind |-> "obj", pairs |-> pairs, ws |-> ws]

ListText == [kind |-> "list", pairs |-> <<>>, ws |-> "std"]

GarbageText == [kind |-> "garbage", pairs |-> <<>>, ws |-> "std"]

NoText == [kind |-> "none", pairs |-> <<>>, ws |-> "std"]

\* Parsed values: a dict, a list, or None.
PyDict(pairs) == [k |-> "dict", pairs |-> pairs]

PyList == [k |-> "list", pairs |-> <<>>]

PyNone == [k |-> "None", pairs |-> <<>>]

\* A bool and a list of strings that a view returns.
PyBool(b) == [k |-> "bool", b |-> b]

PyListOf(items) == [k |-> "list", items |-> items]

Keys(pairs) == {pairs[i][1] : i \in DOMAIN pairs}

Lookup(pairs, key) == pairs[CHOOSE i \in DOMAIN pairs : pairs[i][1] = key][2]

\* "field in parsed": membership in a dict's keys; a list holds no field name.
HasField(v, key) == v.k = "dict" /\ key \in Keys(v.pairs)

\* Faulty variant: a member the dict holds already is kept
DictSetDefault(pairs, key, value) ==
    IF key \in Keys(pairs) THEN pairs ELSE Append(pairs, <<key, value>>)

\* parsed[key] = value: replaces in place, or appends.
DictSet(pairs, key, value) ==
    IF key \in Keys(pairs)
    THEN [i \in DOMAIN pairs |-> IF pairs[i][1] = key THEN <<key, value>> ELSE pairs[i]]
    ELSE Append(pairs, <<key, value>>)

\* Python == on parsed values: dicts are equal when they hold the same items.
PyEq(a, b) ==
    /\ a.k = b.k
    /\ {a.pairs[i] : i \in DOMAIN a.pairs} = {b.pairs[i] : i \in DOMAIN b.pairs}

\* Every key the contracts and the modelled generator outputs use, ascending.
KeyOrder ==
    << "alignment", "budget", "clarity", "completeness", "confidence",
       "dispute_id", "extra", "feasibility", "final_score", "key_factors",
       "key_evidence", "party_a_name", "party_a_score", "party_b_name",
       "party_b_score", "reasoning", "resolved_at", "risk", "score", "scores",
       "security", "status", "summary", "verdict", "vibe_score", "vibe_status",
       "winner" >>

SortKeys(pairs) ==
    LET ks == SelectSeq(KeyOrder, LAMBDA key : key \in Keys(pairs))
    IN  [i \in DOMAIN ks |-> <<ks[i], Lookup(pairs, ks[i])>>]

\* json.loads: [ok, val]; ok = FALSE is the JSONDecodeError.
JsonLoads(text) ==
    CASE text.kind = "obj"  -> [ok |-> TRUE, val |-> PyDict(text.pairs)]
      [] text.kind = "list" -> [ok |-> TRUE, val |-> PyList]
      [] OTHER              -> [ok |-> FALSE, val |-> PyNone]

\* Faulty variant: the serialization loses the last member of an object
JsonDumpsTruncated(v, sort_keys) ==
    IF v.k = "dict" /\ v.pairs # <<>>
    THEN ObjText(SubSeq(v.pairs, 1, Len(v.pairs) - 1), "std")
    ELSE ObjText(<<>>, "std")

\* json.dumps(v) and json.dumps(v, sort_keys=True): default separators.
JsonDumps(v, sort_keys) ==
    IF v.k = "dict"
    THEN ObjText(IF sort_keys THEN SortKeys(v.pairs) ELSE v.pairs, "std")
    ELSE ListText

(***************************************************************************)
(* A generator response: a text, possibly wrapped in a Markdown fence and  *)
(* in whitespace; or the failure of the call.                              *)
(***************************************************************************)
Response(text, fence, padded) ==
    [failed |-> FALSE, text |-> text, fence |-> fence, padded |-> padded]

OracleFailure == [failed |-> TRUE, text |-> NoText, fence |-> "none", padded |-> FALSE]

\* strip(), removal of the ```json and ``` marks, strip(): the text is left when
\* the wrapping is one of those; any other wrapping (prose around the JSON)
\* stays in the string, which json.loads then rejects.
CleanResponse(r) ==
    IF r.fence \in {"none", "json", "bare"} THEN r.text ELSE GarbageText

(***************************************************************************)
(* The result of one execution of a nondeterministic block: the value it   *)
(* returned, or the exception it raised.                                   *)
(***************************************************************************)
Returned(v) == [ok |-> TRUE, val |-> v, err |-> <<>>]

Raised(e) == [ok |-> FALSE, val |-> NoText, err |-> e]

(***************************************************************************)
(* gl.eq_principle.strict_eq over the leader's and a validator's execution *)
(* of the block: they agree when the two results are identical; an agreed  *)
(* exception is raised in the contract, a disagreement ends the            *)
(* transaction.                                                            *)
(***************************************************************************)
\* Faulty variant: the leader's result is taken without comparing the validator's
ConsensusLeaderOnly(x1, x2) == TRUE

ConsensusAgreed(x1, x2) == x1 = x2

strict_eq(x1, x2) ==
    IF ~ConsensusAgreed(x1, x2)
    THEN [status |-> "disagreed", val |-> NoText, err |-> <<>>]
    ELSE IF x1.ok
         THEN [status |-> "agreed", val |-> x1.val, err |-> <<>>]
         ELSE [status |-> "raised", val |-> NoText, err |-> x1.err]

\* How a call ends when strict_eq does not return a value.
ConsensusError(c) ==
    IF c.status = "disagreed" THEN "ConsensusDisagreementError" ELSE "NondetError"

\* The responses of the two executions of one call: the leader's is any of
\* responses, the validator's the same one or one of alternates.
Executions(responses, alternates) ==
    {e \in responses \X responses : e[1] = e[2] \/ e[2] \in alternates}

(***************************************************************************)
(* TreeMap                                                                 *)
(***************************************************************************)
\* Faulty variant: the membership test never finds the key
ContainsNever(m, key) == FALSE

\* key in m
Contains(m, key) == key \in DOMAIN m

\* Faulty variant: the lookup returns the default whatever the map holds
TreeGetDefault(m, key) == [found |-> FALSE, val |-> NoText]

\* m.get(key, None): found = FALSE is None
TreeGet(m, key) ==
    IF key \in DOMAIN m THEN [found |-> TRUE, val |-> m[key]]
    ELSE [found |-> FALSE, val |-> NoText]

\* Faulty variant: the write replaces the map by one that holds the new entry alone
TreeSetAlone(m, key, value) == [x \in {key} |-> value]

\* m[key] = value
TreeSet(m, key, value) ==
    [x \in DOMAIN m \cup {key} |-> IF x = key THEN value ELSE m[x]]

EmptyMap == [x \in {} |-> NoText]

\* history: the record the first committing call returned, and the writes so far.
Committed(h, key, ret) ==
    IF key \in DOMAIN h
    THEN [h EXCEPT ![key].writes = @ + 1]
    ELSE [x \in DOMAIN h \cup {key} |->
             IF x = key THEN [ret |-> ret, writes |-> 1] ELSE h[x]]

\* submitted: the text and the arguments of the call that committed under key.
Submitted(s, key, text, args) ==
    IF key \in DOMAIN s
    THEN s
    ELSE [x \in DOMAIN s \cup {key} |->
             IF x = key THEN [text |-> text, args |-> args] ELSE s[x]]

\* What a call's consensus step saw: strict_eq's outcome c on the results x1 and
\* x2 of the two executions, whether these were identical, whether a
\* generator call failed, and what the generator gave the two executions.
Consensus(c, x1, x2, failed, outputs) ==
    [status |-> c.status, val |-> c.val, err |-> c.err, same |-> x1 = x2, failed |-> failed,
     outputs |-> outputs]

NoConsensus ==
    [status |-> "none", val |-> NoText, err |-> <<>>, same |-> TRUE, failed |-> FALSE,
     outputs |-> <<>>]

\* A call: its method, ledger key, arguments, how it ended, whether it invoked
\* the generator, what it returned and what its consensus step saw.
Call(op, key, args, outcome, oracle, ret, consensus) ==
    [op |-> op, key |-> key, args |-> args, outcome |-> outcome,
     oracle |-> oracle, ret |-> ret, consensus |-> consensus]

(***************************************************************************)
(* DisputeResolution                                                       *)
(***************************************************************************)
MinArgumentLen == 20

MaxArgumentLen == 10000

\* Faulty variant: the minimum length is tested on the untrimmed argument.
DisputeInputErrorUntrimmed(dispute_id, party_a_name, party_a_argument, party_b_name, party_b_argument) ==
    CASE Falsy(dispute_id) \/ StripLen(dispute_id) = 0 -> "Dispute ID cannot be empty"
      [] Falsy(party_a_name) \/ StripLen(party_a_name) = 0 -> "Party A name cannot be empty"
      [] Falsy(party_b_name) \/ StripLen(party_b_name) = 0 -> "Party B name cannot be empty"
      [] party_a_argument.len < 20 -> "Party A argument must be at least 20 characters"
      [] party_b_argument.len < 20 -> "Party B argument must be at least 20 characters"
      [] party_a_argument.len > 10000 -> "Party A argument exceeds maximum length"
      [] party_b_argument.len > 10000 -> "Party B argument exceeds maximum length"
      [] OTHER -> ""

\* submit_dispute's input validation: the message it raises, "" when it passes.
DisputeInputError(dispute_id, party_a_name, party_a_argument, party_b_name, party_b_argument) ==
    CASE Falsy(dispute_id) \/ StripLen(dispute_id) = 0 -> "Dispute ID cannot be empty"
      [] Falsy(party_a_name) \/ StripLen(party_a_name) = 0 -> "Party A name cannot be empty"
      [] Falsy(party_b_name) \/ StripLen(party_b_name) = 0 -> "Party B name cannot be empty"
      [] Falsy(party_a_argument) \/ StripLen(party_a_argument) < MinArgumentLen ->
            "Party A argument must be at least 20 characters"
      [] Falsy(party_b_argument) \/ StripLen(party_b_argument) < MinArgumentLen ->
            "Party B argument must be at least 20 characters"
      [] party_a_argument.len > MaxArgumentLen -> "Party A argument exceeds maximum length"
      [] party_b_argument.len > MaxArgumentLen -> "Party B argument exceeds maximum length"
      [] OTHER -> ""

ArbitrationFields ==
    <<"winner", "confidence", "party_a_score", "party_b_score", "reasoning", "key_factors">>

\* isinstance(x, (int, float)) and 0 <= x <= hi
NumberIn(v, lo, hi) == v.t \in {"int", "float", "bool"} /\ v.n >= lo /\ v.n <= hi

\* The first field of required_fields that is not in parsed, 0 when none is missing.
FirstMissing(v, fields) ==
    IF \A i \in DOMAIN fields : HasField(v, fields[i]) THEN 0
    ELSE CHOOSE i \in DOMAIN fields :
            /\ ~HasField(v, fields[i])
            /\ \A j \in 1..(i - 1) : HasField(v, fields[j])

\* The structure checks of nondet_arbitration: the exception raised, <<>> when none.
ArbitrationError(v) ==
    LET m == FirstMissing(v, ArbitrationFields)
        f(key) == Lookup(v.pairs, key)
    IN  CASE m # 0 -> <<"Missing required field", ArbitrationFields[m]>>
          [] f("winner") \notin {VStr("party_a"), VStr("party_b"), VStr("split")} ->
                <<"Invalid winner">>
          [] f("confidence") \notin {VStr("high"), VStr("medium"), VStr("low"), VStr("split")} ->
                <<"Invalid confidence">>
          [] ~NumberIn(f("party_a_score"), 0, 40) -> <<"Invalid party_a_score">>
          [] ~NumberIn(f("party_b_score"), 0, 40) -> <<"Invalid party_b_score">>
          [] f("key_factors").t # "list" -> <<"key_factors must be a list">>
          [] OTHER -> <<>>

\* parsed[...] = ...: the four metadata members.
AddMetadata(pairs, dispute_id, party_a_name, party_b_name) ==
    DictSet(DictSet(DictSet(DictSet(pairs,
        "dispute_id", VStr(dispute_id.s)),
        "party_a_name", VStr(party_a_name.s)),
        "party_b_name", VStr(party_b_name.s)),
        "resolved_at", VStr("blockchain_timestamp"))

\* One execution of the block on the generator's response r.
nondet_arbitration(r, dispute_id, party_a_name, party_b_name) ==
    IF r.failed THEN Raised(<<"exec_prompt failed">>)
    ELSE LET parsed == JsonLoads(CleanResponse(r))
         IN  IF ~parsed.ok THEN Raised(<<"JSONDecodeError">>)
             ELSE IF ArbitrationError(parsed.val) # <<>>
                  THEN Raised(ArbitrationError(parsed.val))
                  ELSE Returned(JsonDumps(
                           PyDict(AddMetadata(parsed.val.pairs, dispute_id,
                                              party_a_name, party_b_name)), TRUE))

\* Generator outputs for the arbitration prompt: members in the prompt's order.
Ruling(winner, confidence, a, b, factors) ==
    << <<"winner", winner>>, <<"confidence", confidence>>,
       <<"party_a_score", a>>, <<"party_b_score", b>>,
       <<"reasoning", VStr("because")>>, <<"key_factors", factors>> >>

RulingA == Ruling(VStr("party_a"), VStr("high"), VInt(30), VInt(20), VList("f1,f2"))

RulingSplit == Ruling(VStr("split"), VStr("split"), VInt(20), VInt(20), VList("f1"))

Reversed(q) == [i \in DOMAIN q |-> q[Len(q) + 1 - i]]

DisputeResponses ==
    { Response(ObjText(RulingA, "pretty"), "none", FALSE),
      Response(ObjText(RulingA, "pretty"), "json", TRUE),
      Response(ObjText(Reversed(RulingA), "compact"), "none", FALSE),
      Response(ObjText(RulingSplit, "pretty"), "bare", FALSE),
      \* the output carries metadata members of its own
      Response(ObjText(<< <<"dispute_id", VStr("forged")>>,
                          <<"party_a_name", VStr("Mallory")>> >> \o RulingA, "pretty"),
               "none", FALSE),
      \* malformed: a missing field, an invalid enum, a score out of range, no JSON
      Response(ObjText(SubSeq(RulingA, 1, 5), "pretty"), "none", FALSE),
      Response(ObjText(Ruling(VStr("nobody"), VStr("high"), VInt(30), VInt(20), VList("f1")),
                       "pretty"), "none", FALSE),
      Response(ObjText(Ruling(VStr("party_a"), VStr("high"), VInt(41), VInt(20), VList("f1")),
                       "pretty"), "none", FALSE),
      Response(GarbageText, "none", FALSE),
      OracleFailure }

DisputeAlternates ==
    { Response(ObjText(RulingA, "pretty"), "none", FALSE),
      Response(ObjText(Reversed(RulingA), "compact"), "none", FALSE),
      Response(GarbageText, "none", FALSE) }

DisputeArgs(dispute_id, party_a_name, party_a_argument, party_b_name, party_b_argument) ==
    [dispute_id |-> dispute_id, party_a_name |-> party_a_name,
     party_a_argument |-> party_a_argument, party_b_name |-> party_b_name,
     party_b_argument |-> party_b_argument]

\* The dispute ids k1 .. kMaxKeys.
MaxKeys == 2

KeyNames ==
    <<"k1", "k2", "k3", "k4", "k5", "k6", "k7", "k8", "k9">>

DisputeId(i) == Str(KeyNames[i], 2, 0)

\* x < y on the modelled key strings: by their place in KeyNames.
StrLess(x, y) ==
    \E i, j \in DOMAIN KeyNames : KeyNames[i] = x.s /\ KeyNames[j] = y.s /\ i < j

\* Valid submissions: every id, two names for party A, arguments of 20
\* characters (24 with 4 of whitespace around them) and of 10000.
ValidDisputeArgs ==
    { DisputeArgs(DisputeId(i), an, Str("a20", 20, 0), Str("Bob", 3, 0), Str("b24", 24, 4)) :
        i \in 1..MaxKeys, an \in {Str("Alice", 5, 0), Str("Carol", 5, 0)} }
    \cup { DisputeArgs(DisputeId(1), Str("Alice", 5, 0), Str("a10000", 10000, 0),
                       Str("Bob", 3, 0), Str("b24", 24, 4)) }

\* An input that passes every check, and the same input with one argument
\* replaced by one that fails a check.
BaseDisputeArgs ==
    DisputeArgs(DisputeId(1), Str("Alice", 5, 0), Str("a20", 20, 0), Str("Bob", 3, 0),
                Str("b24", 24, 4))

InvalidDisputeArgs ==
    { [BaseDisputeArgs EXCEPT !.dispute_id = x] : x \in {EmptyStr, Str(" ", 1, 1)} }
    \cup { [BaseDisputeArgs EXCEPT !.party_a_name = x] : x \in {EmptyStr, Str("  ", 2, 2)} }
    \cup { [BaseDisputeArgs EXCEPT !.party_b_name = x] : x \in {EmptyStr} }
    \cup { [BaseDisputeArgs EXCEPT !.party_a_argument = x] :
             x \in {EmptyStr, Str("a15", 15, 0), Str("a26", 26, 7), Str("a10001", 10001, 0)} }
    \cup { [BaseDisputeArgs EXCEPT !.party_b_argument = x] :
             x \in {Str("b19", 19, 0), Str("b10001", 10001, 0)} }

DisputeInputs == ValidDisputeArgs \cup InvalidDisputeArgs

DisputeIds == {x.dispute_id : x \in DisputeInputs} \cup {Str("unknown", 7, 0)}

\* The block's result on each response, for each submission's id and names.
ArbitrationTable ==
    [x \in {<<a.dispute_id, a.party_a_name, a.party_b_name>> : a \in DisputeInputs} |->
        [r \in DisputeResponses |-> nondet_arbitration(r, x[1], x[2], x[3])]]

ArbitrationRuns(dispute_id, party_a_name, party_b_name) ==
    ArbitrationTable[<<dispute_id, party_a_name, party_b_name>>]

\* strict_eq(nondet_arbitration) on the leader's response r1 and a validator's r2.
_arbitrate_dispute(runs, r1, r2) == strict_eq(runs[r1], runs[r2])

submit_dispute(dispute_id, party_a_name, party_a_argument, party_b_name, party_b_argument) ==
    LET args == DisputeArgs(dispute_id, party_a_name, party_a_argument,
                            party_b_name, party_b_argument)
        op   == "submit_dispute"
    IN
    /\ active = "DisputeResolution"
    /\ UNCHANGED <<active, total_reviews, total_notarizations, total_checks, fetches, evaluations, dao_evaluations, latest_message, latest_sender, pc, loc>>
    /\ IF DisputeInputError(dispute_id, party_a_name, party_a_argument,
                            party_b_name, party_b_argument) # ""
       THEN /\ last' = Call(op, dispute_id, args, "InputValidationError", FALSE, PyNone, NoConsensus)
            /\ UNCHANGED <<disputes, history, submitted>>
       ELSE IF TreeGet(disputes, dispute_id).found
       THEN /\ last' = Call(op, dispute_id, args, "DuplicateKeyError", FALSE, PyNone, NoConsensus)
            /\ UNCHANGED <<disputes, history, submitted>>
       ELSE LET runs == ArbitrationRuns(dispute_id, party_a_name, party_b_name) IN
            \E e \in Executions(DisputeResponses, DisputeAlternates) :
              LET c == _arbitrate_dispute(runs, e[1], e[2])
                  cs == Consensus(c, runs[e[1]], runs[e[2]], e[1].failed \/ e[2].failed, e)
                  ruling == JsonLoads(c.val).val
              IN  IF c.status # "agreed"
                  THEN /\ last' = Call(op, dispute_id, args, ConsensusError(c), TRUE, PyNone, cs)
                       /\ UNCHANGED <<disputes, history, submitted>>
                  ELSE /\ disputes' = TreeSet(disputes, dispute_id, JsonDumps(ruling, FALSE))
                       /\ history' = Committed(history, dispute_id, ruling)
                       /\ submitted' = Submitted(submitted, dispute_id, dispute_id, args)
                       /\ last' = Call(op, dispute_id, args, "ok", TRUE, ruling, cs)

\* The view methods of DisputeResolution.
get_ruling(dispute_id) ==
    /\ active = "DisputeResolution"
    /\ last' = Call("get_ruling", dispute_id, <<>>, "ok", FALSE,
                    IF TreeGet(disputes, dispute_id).found
                    THEN JsonLoads(TreeGet(disputes, dispute_id).val).val ELSE PyNone, NoConsensus)
    /\ UNCHANGED <<active, total_reviews, total_notarizations, total_checks, fetches, disputes, evaluations, dao_evaluations, latest_message,
                   latest_sender, history, submitted, pc, loc>>

dispute_exists(dispute_id) ==
    /\ active = "DisputeResolution"
    /\ last' = Call("dispute_exists", dispute_id, <<>>, "ok", FALSE,
                    PyBool(TreeGet(disputes, dispute_id).found), NoConsensus)
    /\ UNCHANGED <<active, total_reviews, total_notarizations, total_checks, fetches, disputes, evaluations, dao_evaluations, latest_message,
                   latest_sender, history, submitted, pc, loc>>

(***************************************************************************)
(* DAOProposalEvaluator (COnflict-resolver.py)                             *)
(***************************************************************************)
MinProposalLen == 20

MaxProposalLen == 50000

\* hashlib.sha256(text.encode("utf-8")).hexdigest(): a digest per content,
\* taken to be free of collisions on the modelled texts.
DAOProposalEvaluator_hash_proposal(proposal_text) ==
    [alg |-> "sha256", s |-> proposal_text.s, len |-> proposal_text.len,
     pad |-> proposal_text.pad]

\* submit_proposal's input validation: the message it raises, "" when it passes.
ProposalInputError(proposal_text) ==
    CASE Falsy(proposal_text) \/ StripLen(proposal_text) < MinProposalLen ->
            "Proposal text must be at least 20 characters"
      [] proposal_text.len > MaxProposalLen -> "Proposal text exceeds maximum length"
      [] OTHER -> ""

ScoreFields == <<"clarity", "feasibility", "risk", "alignment", "budget", "completeness">>

EvaluationFields == ScoreFields \o <<"final_score", "verdict", "summary">>

Verdicts == {VStr("approve"), VStr("revise"), VStr("reject")}

\* The structure checks of nondet_evaluation: the exception raised, <<>> when none.
EvaluationError(v) ==
    LET m == FirstMissing(v, EvaluationFields)
        f(key) == Lookup(v.pairs, key)
        bad == {i \in DOMAIN ScoreFields : ~NumberIn(f(ScoreFields[i]), 0, 10)}
    IN  CASE m # 0 -> <<"Missing required field", EvaluationFields[m]>>
          [] bad # {} ->
                <<"Invalid score", ScoreFields[CHOOSE i \in bad : \A j \in bad : i <= j]>>
          [] ~NumberIn(f("final_score"), 0, 100) -> <<"Invalid final_score">>
          [] f("verdict") \notin Verdicts -> <<"Invalid verdict">>
          [] OTHER -> <<>>

\* One execution of the block on the generator's response r.
nondet_evaluation(r) ==
    IF r.failed THEN Raised(<<"exec_prompt failed">>)
    ELSE LET parsed == JsonLoads(CleanResponse(r))
         IN  IF ~parsed.ok THEN Raised(<<"JSONDecodeError">>)
             ELSE IF EvaluationError(parsed.val) # <<>>
                  THEN Raised(EvaluationError(parsed.val))
                  ELSE Returned(JsonDumps(parsed.val, TRUE))

\* Generator outputs for the evaluation prompt: members in the prompt's order.
Evaluation(score, final_score, verdict) ==
    [i \in DOMAIN ScoreFields |-> <<ScoreFields[i], VInt(score)>>]
    \o << <<"final_score", VInt(final_score)>>, <<"verdict", VStr(verdict)>>,
          <<"summary", VStr("a summary")>> >>

EvaluationResponses ==
    { Response(ObjText(Evaluation(8, 82, "approve"), "pretty"), "none", FALSE),
      Response(ObjText(Evaluation(8, 82, "approve"), "pretty"), "json", TRUE),
      Response(ObjText(Reversed(Evaluation(8, 82, "approve")), "compact"), "none", FALSE),
      Response(ObjText(Evaluation(8, 82, "reject"), "pretty"), "none", FALSE),
      Response(ObjText(Evaluation(5, 50, "revise"), "pretty"), "bare", FALSE),
      \* malformed: a missing field, scores out of range, an invalid enum, no JSON
      Response(ObjText(SubSeq(Evaluation(8, 82, "approve"), 1, 8), "pretty"), "none", FALSE),
      Response(ObjText(Evaluation(11, 82, "approve"), "pretty"), "none", FALSE),
      Response(ObjText(Evaluation(8, 101, "approve"), "pretty"), "none", FALSE),
      Response(ObjText(Evaluation(8, 82, "maybe"), "pretty"), "none", FALSE),
      Response(GarbageText, "none", FALSE),
      OracleFailure }

EvaluationAlternates ==
    { Response(ObjText(Evaluation(8, 82, "approve"), "pretty"), "none", FALSE),
      Response(ObjText(Reversed(Evaluation(8, 82, "approve")), "compact"), "none", FALSE),
      Response(GarbageText, "none", FALSE) }

\* The block's result on each response.
EvaluationRuns == [r \in EvaluationResponses |-> nondet_evaluation(r)]

\* strict_eq(nondet_evaluation) on the leader's response r1 and a validator's r2.
_evaluate_proposal(r1, r2) == strict_eq(EvaluationRuns[r1], EvaluationRuns[r2])

\* MaxKeys proposal texts within the length limits, the longest allowed among
\* them, and texts at and beyond the limits.
Proposal(i) == Str(KeyNames[i], 40, 0)

ValidProposals ==
    {Proposal(i) : i \in 1..MaxKeys-1} \cup {Str("p50000", 50000, 0)}

InvalidProposals ==
    {EmptyStr, Str("p15", 15, 0), Str("p25", 25, 6), Str("p50001", 50001, 0)}

Proposals == ValidProposals \cup InvalidProposals

\* budget, timeline, dao_mission: the defaults, and values of a caller's.
ProposalContexts ==
    { [budget |-> 0, timeline |-> EmptyStr, dao_mission |-> EmptyStr],
      [budget |-> 50000, timeline |-> Str("Q2 2026", 7, 0),
       dao_mission |-> Str("mission", 7, 0)] }

\* Faulty variant: the ledger key is taken from the text and the budget
DAOProposalEvaluator_submit_proposalKeyedByContext(proposal_text, context) ==
    LET proposal_hash == [DAOProposalEvaluator_hash_proposal(proposal_text) EXCEPT
                             !.pad = context.budget]
        op == "DAOProposalEvaluator.submit_proposal"
    IN
    /\ active = "DAOProposalEvaluator"
    /\ UNCHANGED <<active, total_reviews, total_notarizations, total_checks, fetches, disputes, dao_evaluations, latest_message, latest_sender, pc, loc>>
    /\ IF ProposalInputError(proposal_text) # ""
       THEN /\ last' = Call(op, proposal_text, context, "InputValidationError", FALSE, PyNone, NoConsensus)
            /\ UNCHANGED <<evaluations, history, submitted>>
       ELSE IF TreeGet(evaluations, proposal_hash).found
       THEN /\ last' = Call(op, proposal_text, context, "ok", FALSE,
                            JsonLoads(TreeGet(evaluations, proposal_hash).val).val, NoConsensus)
            /\ UNCHANGED <<evaluations, history, submitted>>
       ELSE \E e \in Executions(EvaluationResponses, EvaluationAlternates) :
              LET c == _evaluate_proposal(e[1], e[2])
                  cs == Consensus(c, EvaluationRuns[e[1]], EvaluationRuns[e[2]],
                                  e[1].failed \/ e[2].failed, e)
                  evaluation_result == JsonLoads(c.val).val
              IN  IF c.status # "agreed"
                  THEN /\ last' = Call(op, proposal_text, context, ConsensusError(c), TRUE, PyNone, cs)
                       /\ UNCHANGED <<evaluations, history, submitted>>
                  ELSE /\ evaluations' =
                            TreeSet(evaluations, proposal_hash, JsonDumps(evaluation_result, FALSE))
                       /\ history' = Committed(history, proposal_hash, evaluation_result)
                       /\ submitted' = Submitted(submitted, proposal_hash, proposal_text, context)
                       /\ last' = Call(op, proposal_text, context, "ok", TRUE, evaluation_result, cs)

DAOProposalEvaluator_submit_proposal(proposal_text, context) ==
    LET proposal_hash == DAOProposalEvaluator_hash_proposal(proposal_text)
        op == "DAOProposalEvaluator.submit_proposal"
    IN
    /\ active = "DAOProposalEvaluator"
    /\ UNCHANGED <<active, total_reviews, total_notarizations, total_checks, fetches, disputes, dao_evaluations, latest_message, latest_sender, pc, loc>>
    /\ IF ProposalInputError(proposal_text) # ""
       THEN /\ last' = Call(op, proposal_text, context, "InputValidationError", FALSE, PyNone, NoConsensus)
            /\ UNCHANGED <<evaluations, history, submitted>>
       ELSE IF TreeGet(evaluations, proposal_hash).found
       THEN /\ last' = Call(op, proposal_text, context, "ok", FALSE,
                            JsonLoads(TreeGet(evaluations, proposal_hash).val).val, NoConsensus)
            /\ UNCHANGED <<evaluations, history, submitted>>
       ELSE \E e \in Executions(EvaluationResponses, EvaluationAlternates) :
              LET c == _evaluate_proposal(e[1], e[2])
                  cs == Consensus(c, EvaluationRuns[e[1]], EvaluationRuns[e[2]],
                                  e[1].failed \/ e[2].failed, e)
                  evaluation_result == JsonLoads(c.val).val
              IN  IF c.status # "agreed"
                  THEN /\ last' = Call(op, proposal_text, context, ConsensusError(c), TRUE, PyNone, cs)
                       /\ UNCHANGED <<evaluations, history, submitted>>
                  ELSE /\ evaluations' =
                            TreeSet(evaluations, proposal_hash, JsonDumps(evaluation_result, FALSE))
                       /\ history' = Committed(history, proposal_hash, evaluation_result)
                       /\ submitted' = Submitted(submitted, proposal_hash, proposal_text, context)
                       /\ last' = Call(op, proposal_text, context, "ok", TRUE, evaluation_result, cs)

\* get_evaluation(proposal_text)
DAOProposalEvaluator_get_evaluation(proposal_text) ==
    LET proposal_hash == DAOProposalEvaluator_hash_proposal(proposal_text) IN
    /\ active = "DAOProposalEvaluator"
    /\ last' = Call("DAOProposalEvaluator.get_evaluation", proposal_text, <<>>, "ok", FALSE,
                    IF TreeGet(evaluations, proposal_hash).found
                    THEN JsonLoads(TreeGet(evaluations, proposal_hash).val).val ELSE PyNone, NoConsensus)
    /\ UNCHANGED <<active, total_reviews, total_notarizations, total_checks, fetches, disputes, evaluations, dao_evaluations, latest_message,
                   latest_sender, history, submitted, pc, loc>>

(***************************************************************************)
(* DaoProposalEvaluator (unnamed/part_000)                                 *)
(***************************************************************************)
DaoProposalEvaluator_hash_proposal(text) ==
    [alg |-> "sha256", s |-> text.s, len |-> text.len, pad |-> text.pad]

\* The record _safe_parse_json returns for a string json.loads rejects.
FallbackEvaluation ==
    PyDict(<< <<"final_score", VInt(0)>>, <<"verdict", VStr("reject")>>,
              <<"scores", VObj("clarity,feasibility,risk,alignment,budget,completeness", 0)>>,
              <<"summary", VStr("Invalid or unparsable model output")>> >>)

_safe_parse_json(raw) ==
    IF JsonLoads(raw).ok THEN JsonLoads(raw).val ELSE FallbackEvaluation

\* The literal "{}" nondet_eval returns when the generator call raises.
EmptyObjectText == ObjText(<<>>, "std")

\* One execution of the block on the generator's response r.
nondet_eval(r) ==
    IF r.failed THEN Returned(EmptyObjectText) ELSE Returned(CleanResponse(r))

\* Generator outputs for the evaluation prompt: members in the prompt's order.
DaoEvaluation(final_score, verdict, score) ==
    << <<"final_score", VInt(final_score)>>, <<"verdict", VStr(verdict)>>,
       <<"scores", VObj("clarity,feasibility,risk,alignment,budget,completeness", score)>>,
       <<"summary", VStr("a summary")>> >>

DaoResponses ==
    { Response(ObjText(DaoEvaluation(82, "approve", 8), "pretty"), "none", FALSE),
      Response(ObjText(DaoEvaluation(82, "approve", 8), "pretty"), "json", TRUE),
      Response(ObjText(DaoEvaluation(82, "approve", 8), "compact"), "none", FALSE),
      Response(ObjText(Reversed(DaoEvaluation(82, "approve", 8)), "pretty"), "none", FALSE),
      \* malformed: missing fields, a score out of range, an invalid enum, no JSON
      Response(ObjText(SubSeq(DaoEvaluation(82, "approve", 8), 1, 1), "pretty"), "none", FALSE),
      Response(ObjText(DaoEvaluation(500, "approve", 8), "pretty"), "none", FALSE),
      Response(ObjText(DaoEvaluation(82, "maybe", 8), "pretty"), "none", FALSE),
      Response(GarbageText, "none", FALSE),
      OracleFailure }

DaoAlternates ==
    { Response(ObjText(DaoEvaluation(82, "approve", 8), "pretty"), "none", FALSE),
      Response(ObjText(Reversed(DaoEvaluation(82, "approve", 8)), "pretty"), "none", FALSE),
      Response(GarbageText, "none", FALSE) }

\* The block's result on each response.
DaoRuns == [r \in DaoResponses |-> nondet_eval(r)]

\* The proposal texts: the empty string, and p1 .. p(MaxKeys - 1).
DaoProposals == {EmptyStr} \cup {Proposal(i) : i \in 1..(MaxKeys - 1)}

DaoProposalEvaluator_submit_proposal(proposal_text) ==
    LET proposal_hash == DaoProposalEvaluator_hash_proposal(proposal_text)
        op == "DaoProposalEvaluator.submit_proposal"
    IN
    /\ active = "DaoProposalEvaluator"
    /\ UNCHANGED <<active, total_reviews, total_notarizations, total_checks, fetches, disputes, evaluations, latest_message, latest_sender, pc, loc>>
    /\ IF Contains(dao_evaluations, proposal_hash)
       THEN /\ last' = Call(op, proposal_text, <<>>, "ok", FALSE,
                            _safe_parse_json(dao_evaluations[proposal_hash]), NoConsensus)
            /\ UNCHANGED <<dao_evaluations, history, submitted>>
       ELSE \E e \in Executions(DaoResponses, DaoAlternates) :
              LET c == strict_eq(DaoRuns[e[1]], DaoRuns[e[2]])
                  cs == Consensus(c, DaoRuns[e[1]], DaoRuns[e[2]], e[1].failed \/ e[2].failed, e)
                  parsed == _safe_parse_json(c.val)
              IN  IF c.status # "agreed"
                  THEN /\ last' = Call(op, proposal_text, <<>>, ConsensusError(c), TRUE, PyNone, cs)
                       /\ UNCHANGED <<dao_evaluations, history, submitted>>
                  ELSE /\ dao_evaluations' =
                            TreeSet(dao_evaluations, proposal_hash, JsonDumps(parsed, FALSE))
                       /\ history' = Committed(history, proposal_hash, parsed)
                       /\ submitted' = Submitted(submitted, proposal_hash, proposal_text, <<>>)
                       /\ last' = Call(op, proposal_text, <<>>, "ok", TRUE, parsed, cs)

\* The hashes a caller may ask about: of the texts, and one of no submitted text.
DaoHashes ==
    {DaoProposalEvaluator_hash_proposal(t) : t \in DaoProposals \cup {Str("other", 5, 0)}}

DaoProposalEvaluator_get_evaluation(proposal_hash) ==
    /\ active = "DaoProposalEvaluator"
    /\ last' = Call("DaoProposalEvaluator.get_evaluation", proposal_hash, <<>>, "ok", FALSE,
                    IF ~Contains(dao_evaluations, proposal_hash)
                    THEN PyDict(<<>>)
                    ELSE _safe_parse_json(dao_evaluations[proposal_hash]), NoConsensus)
    /\ UNCHANGED <<active, total_reviews, total_notarizations, total_checks, fetches, disputes, evaluations, dao_evaluations, latest_message,
                   latest_sender, history, submitted, pc, loc>>

has_evaluation(proposal_hash) ==
    /\ active = "DaoProposalEvaluator"
    /\ last' = Call("DaoProposalEvaluator.has_evaluation", proposal_hash, <<>>, "ok", FALSE,
                    PyBool(Contains(dao_evaluations, proposal_hash)), NoConsensus)
    /\ UNCHANGED <<active, total_reviews, total_notarizations, total_checks, fetches, disputes, evaluations, dao_evaluations, latest_message,
                   latest_sender, history, submitted, pc, loc>>

(***************************************************************************)
(* FriendlyGuestbook                                                       *)
(***************************************************************************)
\* A moderation reply: the word it holds, whether in lower case, and the
\* whitespace around it.
Reply(word, lower, pad) ==
    [failed |-> FALSE, word |-> word, lower |-> lower, pad |-> pad]

ReplyFailure == [failed |-> TRUE, word |-> "", lower |-> FALSE, pad |-> 0]

\* result.strip().upper()
StripUpper(r) == Str(r.word, Len(r.word), 0)

\* One execution of check_vibes on the generator's reply r.
check_vibes(r) ==
    IF r.failed THEN Raised(<<"exec_prompt failed">>) ELSE Returned(StripUpper(r))

\* Faulty variant: the gate compares with the lower-case word
VibeCheckFailedLower(consensus_result) == consensus_result = Str("yes", 3, 0)

\* consensus_result == "YES"
VibeCheckFailed(consensus_result) == consensus_result = Str("YES", 3, 0)

GuestbookReplies ==
    { Reply("YES", FALSE, 0), Reply("YES", TRUE, 2), Reply("NO", FALSE, 0),
      Reply("NO", TRUE, 1), Reply("MAYBE", FALSE, 0), Reply("YES.", FALSE, 0),
      ReplyFailure }

GuestbookAlternates == {Reply("YES", FALSE, 0), Reply("NO", FALSE, 0)}

Messages ==
    { Str("Great job everyone, thanks for your help!", 41, 0), Str("spam spam", 9, 0),
      EmptyStr }

Senders == {"0xA11CE", "0xB0B"}

\* Faulty variant: the sender is stored in a shortened form
StrOfAddressShort(sender_address) == Str(sender_address, 10, 0)

\* str(gl.message.sender_address): the address in its 42 character hex form.
StrOfAddress(sender_address) == Str(sender_address, 42, 0)

sign_guestbook(message, sender_address) ==
    /\ active = "FriendlyGuestbook"
    /\ UNCHANGED <<active, total_reviews, total_notarizations, total_checks, fetches, disputes, evaluations, dao_evaluations, history, submitted, pc, loc>>
    /\ \E e \in Executions(GuestbookReplies, GuestbookAlternates) :
         LET c == strict_eq(check_vibes(e[1]), check_vibes(e[2]))
             cs == Consensus(c, check_vibes(e[1]), check_vibes(e[2]),
                             e[1].failed \/ e[2].failed, e)
             args == [message |-> message, sender_address |-> sender_address] IN
         IF c.status # "agreed"
         THEN /\ last' = Call("sign_guestbook", message, args, ConsensusError(c), TRUE, PyNone, cs)
              /\ UNCHANGED <<latest_message, latest_sender>>
         ELSE IF VibeCheckFailed(c.val)
         THEN /\ last' = Call("sign_guestbook", message, args, "PolicyRejectionError", TRUE, PyNone, cs)
              /\ UNCHANGED <<latest_message, latest_sender>>
         ELSE /\ latest_message' = message
              /\ latest_sender' = StrOfAddress(sender_address)
              /\ last' = Call("sign_guestbook", message, args, "ok", TRUE, PyNone, cs)

get_latest_entry ==
    /\ active = "FriendlyGuestbook"
    /\ last' = Call("get_latest_entry", EmptyStr, <<>>, "ok", FALSE,
                    [sender |-> latest_sender, message |-> latest_message], NoConsensus)
    /\ UNCHANGED <<active, total_reviews, total_notarizations, total_checks, fetches, disputes, evaluations, dao_evaluations, latest_message,
                   latest_sender, history, submitted, pc, loc>>

\* Faulty variant: the keys are listed in descending order
TreeKeysDescending(m) ==
    LET rank(x) == Cardinality({y \in DOMAIN m : StrLess(x, y)})
    IN  [i \in 1..Cardinality(DOMAIN m) |-> CHOOSE x \in DOMAIN m : rank(x) = i - 1]

\* TreeMap.keys(): the keys in ascending order.
TreeKeys(m) ==
    LET rank(x) == Cardinality({y \in DOMAIN m : StrLess(y, x)})
    IN  [i \in 1..Cardinality(DOMAIN m) |-> CHOOSE x \in DOMAIN m : rank(x) = i - 1]

get_all_dispute_ids ==
    /\ active = "DisputeResolution"
    /\ last' = Call("get_all_dispute_ids", EmptyStr, <<>>, "ok", FALSE,
                    PyListOf(TreeKeys(disputes)), NoConsensus)
    /\ UNCHANGED <<active, total_reviews, total_notarizations, total_checks, fetches, disputes, evaluations, dao_evaluations, latest_message,
                   latest_sender, history, submitted, pc, loc>>

(***************************************************************************)
(* Results that cross the consensus step as values (not as JSON strings):  *)
(* the platform compares their calldata encoding, which writes a dict's    *)
(* entries in ascending key order, and hands the decoded value back.       *)
(***************************************************************************)
Calldata(v) == IF v.k = "dict" THEN PyDict(SortKeys(v.pairs)) ELSE v

\* d.get(key, default)
DictGet(pairs, key, default) == IF key \in Keys(pairs) THEN Lookup(pairs, key) ELSE default

\* gl.nondet.exec_prompt(prompt, response_format='json'): the parsed value, or
\* the failure of the call.
LlmResult(v) == [failed |-> FALSE, val |-> v]

LlmFailure == [failed |-> TRUE, val |-> PyNone]

\* The write calls per deployment that the counters are followed for.
MaxCalls == 2

\* Faulty variant: the counter is written back without the addition
IncrementLost(counter) == counter

\* gl.u256(int(counter) + 1)
Increment(counter) == counter + 1

(***************************************************************************)
(* AINotary (AI-Verifier.py)                                               *)
(* A URL is the chunks of its host and of the rest (path and query): c is  *)
(* the chunk in lower case, upper tells that the URL writes it in upper    *)
(* case.  The chunks are cut so that a blocked name occurs in the URL      *)
(* exactly as a chunk.                                                     *)
(***************************************************************************)
Chunk(c, upper) == [c |-> c, upper |-> upper]

Url(host, rest) == [host |-> host, rest |-> rest]

\* source_url.lower()
UrlLower(url) == [i \in DOMAIN (url.host \o url.rest) |->
                    Chunk((url.host \o url.rest)[i].c, FALSE)]

blocked == {"x.com", "twitter.com", "facebook.com", "instagram.com", "linkedin.com"}

\* domain in text
Occurs(domain, text) == \E i \in DOMAIN text : text[i] = Chunk(domain, FALSE)

\* Faulty variant: the URL is tested as written, without lower()
SocialMediaBlockedCased(source_url) ==
    \E domain \in blocked : Occurs(domain, source_url.host \o source_url.rest)

\* any(domain in source_url.lower() for domain in blocked)
SocialMediaBlocked(source_url) ==
    \E domain \in blocked : Occurs(domain, UrlLower(source_url))

BlockedMessage == VStr("ERROR: Social media blocked - use notarize_without_url() instead")

BlockedResult ==
    PyDict(<< <<"status", VStr("ERROR")>>, <<"reasoning", VStr("Social media blocked")>> >>)

\* One execution of a fetch_and_verify block: what web.render did and what
\* exec_prompt returned.
Rendered(r) == [web |-> "ok", llm |-> r]

RenderFailure == [web |-> "failed", llm |-> LlmFailure]

\* fetch_and_verify of notarize_event
notarize_event_fetch_and_verify(e) ==
    IF e.web = "failed" THEN Raised(<<"web.render failed">>)
    ELSE IF e.llm.failed THEN Raised(<<"exec_prompt failed">>)
    ELSE IF e.llm.val.k # "dict" THEN Raised(<<"AttributeError">>)
    ELSE Returned(DictGet(e.llm.val.pairs, "status", VStr("UNKNOWN")))

\* fetch_and_verify of notarize_event_full
notarize_event_full_fetch_and_verify(e) ==
    IF e.web = "failed" THEN Raised(<<"web.render failed">>)
    ELSE IF e.llm.failed THEN Raised(<<"exec_prompt failed">>)
    ELSE Returned(Calldata(e.llm.val))

\* verify of notarize_without_url
verify(r) == IF r.failed THEN Raised(<<"exec_prompt failed">>) ELSE Returned(Calldata(r.val))

\* Generator results for the notary prompts: members in the prompt's order.
Verification(status) ==
    << <<"status", status>>, <<"confidence", VInt(90)>>, <<"reasoning", VStr("explanation")>> >>

NotaryResults ==
    { LlmResult(PyDict(Verification(VStr("VERIFIED")))),
      LlmResult(PyDict(Reversed(Verification(VStr("VERIFIED"))))),
      LlmResult(PyDict(Verification(VStr("UNVERIFIED")))),
      \* a status outside the two values, no status, no object
      LlmResult(PyDict(Verification(VStr("PARTIALLY VERIFIED")))),
      LlmResult(PyDict(SubSeq(Verification(VStr("VERIFIED")), 2, 3))),
      LlmResult(PyList),
      LlmFailure }

NotaryAlternates ==
    { LlmResult(PyDict(Verification(VStr("VERIFIED")))),
      LlmResult(PyDict(Reversed(Verification(VStr("VERIFIED"))))) }

NotaryFetches == {Rendered(r) : r \in NotaryResults} \cup {RenderFailure}

NotaryFetchAlternates == {Rendered(r) : r \in NotaryAlternates} \cup {RenderFailure}

NotarizeEventRuns == [e \in NotaryFetches |-> notarize_event_fetch_and_verify(e)]

NotarizeEventFullRuns == [e \in NotaryFetches |-> notarize_event_full_fetch_and_verify(e)]

VerifyRuns == [r \in NotaryResults |-> verify(r)]

\* The claims and the source URLs: blocked hosts (one written in upper
\* case), a host and a query that contain a blocked name, and two others.
NotaryClaims == {Str("claim", 40, 0)}

SourceUrls ==
    { Url(<<Chunk("x.com", FALSE)>>, <<Chunk("/status/1", FALSE)>>),
      Url(<<Chunk("twitter.com", TRUE)>>, <<>>),
      Url(<<Chunk("netfli", FALSE), Chunk("x.com", FALSE)>>, <<Chunk("/title", FALSE)>>),
      Url(<<Chunk("example.org", FALSE)>>,
          <<Chunk("/?ref=", FALSE), Chunk("facebook.com", FALSE)>>),
      Url(<<Chunk("github.com", FALSE)>>, <<Chunk("/repo", FALSE)>>),
      Url(<<Chunk("coingecko.com", FALSE)>>, <<>>) }

NotaryArgs(claim, source_url) == [claim |-> claim, source_url |-> source_url]

\* A transaction that ends with an exception leaves the storage as it was:
\* the counter's increment stays only when the call returns.
notarize_event(claim, source_url) ==
    LET op == "notarize_event"
        args == NotaryArgs(claim, source_url)
    IN
    /\ active = "AINotary"
    /\ total_notarizations < MaxCalls
    /\ UNCHANGED <<active, total_reviews, total_checks, disputes, evaluations, dao_evaluations,
                   latest_message, latest_sender, history, submitted, pc, loc>>
    /\ IF SocialMediaBlocked(source_url)
       THEN /\ total_notarizations' = Increment(total_notarizations)
            /\ last' = Call(op, EmptyStr, args, "ok", FALSE, BlockedMessage, NoConsensus)
            /\ UNCHANGED fetches
       ELSE \E e \in Executions(NotaryFetches, NotaryFetchAlternates) :
              LET c == strict_eq(NotarizeEventRuns[e[1]], NotarizeEventRuns[e[2]])
                  cs == Consensus(c, NotarizeEventRuns[e[1]], NotarizeEventRuns[e[2]],
                                  e[1].llm.failed \/ e[2].llm.failed, e)
              IN  /\ fetches' = fetches \cup {source_url}
                  /\ IF c.status # "agreed"
                     THEN /\ last' = Call(op, EmptyStr, args, ConsensusError(c), TRUE, PyNone, cs)
                          /\ UNCHANGED total_notarizations
                     ELSE /\ total_notarizations' = Increment(total_notarizations)
                          /\ last' = Call(op, EmptyStr, args, "ok", TRUE, c.val, cs)

notarize_event_full(claim, source_url) ==
    LET op == "notarize_event_full"
        args == NotaryArgs(claim, source_url)
    IN
    /\ active = "AINotary"
    /\ total_notarizations < MaxCalls
    /\ UNCHANGED <<active, total_reviews, total_checks, disputes, evaluations, dao_evaluations,
                   latest_message, latest_sender, history, submitted, pc, loc>>
    /\ IF SocialMediaBlocked(source_url)
       THEN /\ total_notarizations' = Increment(total_notarizations)
            /\ last' = Call(op, EmptyStr, args, "ok", FALSE, BlockedResult, NoConsensus)
            /\ UNCHANGED fetches
       ELSE \E e \in Executions(NotaryFetches, NotaryFetchAlternates) :
              LET c == strict_eq(NotarizeEventFullRuns[e[1]], NotarizeEventFullRuns[e[2]])
                  cs == Consensus(c, NotarizeEventFullRuns[e[1]], NotarizeEventFullRuns[e[2]],
                                  e[1].llm.failed \/ e[2].llm.failed, e)
              IN  /\ fetches' = fetches \cup {source_url}
                  /\ IF c.status # "agreed"
                     THEN /\ last' = Call(op, EmptyStr, args, ConsensusError(c), TRUE, PyNone, cs)
                          /\ UNCHANGED total_notarizations
                     ELSE /\ total_notarizations' = Increment(total_notarizations)
                          /\ last' = Call(op, EmptyStr, args, "ok", TRUE, c.val, cs)

EvidenceTexts == {Str("evidence", 60, 0)}

notarize_without_url(claim, evidence_text) ==
    LET op == "notarize_without_url"
        args == [claim |-> claim, evidence_text |-> evidence_text]
    IN
    /\ active = "AINotary"
    /\ total_notarizations < MaxCalls
    /\ UNCHANGED <<active, total_reviews, total_checks, fetches, disputes, evaluations, dao_evaluations,
                   latest_message, latest_sender, history, submitted, pc, loc>>
    /\ \E e \in Executions(NotaryResults, NotaryAlternates) :
         LET c == strict_eq(VerifyRuns[e[1]], VerifyRuns[e[2]])
             cs == Consensus(c, VerifyRuns[e[1]], VerifyRuns[e[2]], e[1].failed \/ e[2].failed, e)
         IN  IF c.status # "agreed"
             THEN /\ last' = Call(op, EmptyStr, args, ConsensusError(c), TRUE, PyNone, cs)
                  /\ UNCHANGED total_notarizations
             ELSE /\ total_notarizations' = Increment(total_notarizations)
                  /\ last' = Call(op, EmptyStr, args, "ok", TRUE, c.val, cs)

\* int(self.total_notarizations)
get_total_notarizations ==
    /\ active = "AINotary"
    /\ last' = Call("get_total_notarizations", EmptyStr, <<>>, "ok", FALSE,
                    VInt(total_notarizations), NoConsensus)
    /\ UNCHANGED <<active, total_reviews, total_notarizations, total_checks, fetches, disputes, evaluations,
                   dao_evaluations, latest_message, latest_sender, history, submitted, pc, loc>>

(***************************************************************************)
(* VibeCheck (vibe_check.py)                                               *)
(***************************************************************************)
\* analyze_vibe: one execution on the generator's result r.
analyze_vibe(r) ==
    IF r.failed THEN Raised(<<"exec_prompt failed">>) ELSE Returned(Calldata(r.val))

\* Generator results for the vibe prompt: members in the prompt's order.
Vibe(status) ==
    << <<"vibe_status", status>>, <<"vibe_score", VInt(8)>>, <<"reasoning", VStr("explanation")>> >>

VibeResults ==
    { LlmResult(PyDict(Vibe(VStr("PASS")))),
      LlmResult(PyDict(Reversed(Vibe(VStr("PASS"))))),
      LlmResult(PyDict(Vibe(VStr("FAIL")))),
      \* another status, a status that is no string, no status, no object
      LlmResult(PyDict(Vibe(VStr("NEUTRAL")))),
      LlmResult(PyDict(Vibe(VInt(1)))),
      LlmResult(PyDict(SubSeq(Vibe(VStr("PASS")), 2, 3))),
      LlmResult(PyList),
      LlmFailure }

VibeAlternates ==
    { LlmResult(PyDict(Vibe(VStr("PASS")))), LlmResult(PyDict(Reversed(Vibe(VStr("PASS"))))) }

AnalyzeVibeRuns == [r \in VibeResults |-> analyze_vibe(r)]

Statements == {Str("You are wonderful", 17, 0), EmptyStr}

check_vibe(statement) ==
    LET op == "check_vibe" IN
    /\ active = "VibeCheck"
    /\ total_checks < MaxCalls
    /\ UNCHANGED <<active, total_reviews, total_notarizations, fetches, disputes, evaluations,
                   dao_evaluations, latest_message, latest_sender, history, submitted, pc, loc>>
    /\ \E e \in Executions(VibeResults, VibeAlternates) :
         LET c == strict_eq(AnalyzeVibeRuns[e[1]], AnalyzeVibeRuns[e[2]])
             cs == Consensus(c, AnalyzeVibeRuns[e[1]], AnalyzeVibeRuns[e[2]],
                             e[1].failed \/ e[2].failed, e)
             llm_result == c.val
         IN  IF c.status # "agreed"
             THEN /\ last' = Call(op, EmptyStr, statement, ConsensusError(c), TRUE, PyNone, cs)
                  /\ UNCHANGED total_checks
             ELSE IF llm_result.k # "dict"
             THEN /\ last' = Call(op, EmptyStr, statement, "AttributeError", TRUE, PyNone, cs)
                  /\ UNCHANGED total_checks
             ELSE /\ total_checks' = Increment(total_checks)
                  /\ last' = Call(op, EmptyStr, statement, "ok", TRUE,
                                  DictGet(llm_result.pairs, "vibe_status", VStr("UNKNOWN")), cs)

check_vibe_full(statement) ==
    LET op == "check_vibe_full" IN
    /\ active = "VibeCheck"
    /\ total_checks < MaxCalls
    /\ UNCHANGED <<active, total_reviews, total_notarizations, fetches, disputes, evaluations,
                   dao_evaluations, latest_message, latest_sender, history, submitted, pc, loc>>
    /\ \E e \in Executions(VibeResults, VibeAlternates) :
         LET c == strict_eq(AnalyzeVibeRuns[e[1]], AnalyzeVibeRuns[e[2]])
             cs == Consensus(c, AnalyzeVibeRuns[e[1]], AnalyzeVibeRuns[e[2]],
                             e[1].failed \/ e[2].failed, e)
         IN  IF c.status # "agreed"
             THEN /\ last' = Call(op, EmptyStr, statement, ConsensusError(c), TRUE, PyNone, cs)
                  /\ UNCHANGED total_checks
             ELSE /\ total_checks' = Increment(total_checks)
                  /\ last' = Call(op, EmptyStr, statement, "ok", TRUE, c.val, cs)

\* int(self.total_checks)
get_total_checks ==
    /\ active = "VibeCheck"
    /\ last' = Call("get_total_checks", EmptyStr, <<>>, "ok", FALSE, VInt(total_checks),
                    NoConsensus)
    /\ UNCHANGED <<active, total_reviews, total_notarizations, total_checks, fetches, disputes, evaluations,
                   dao_evaluations, latest_message, latest_sender, history, submitted, pc, loc>>

(***************************************************************************)
(* CodeReviewJudge (AI-Code_judge.py)                                      *)
(***************************************************************************)
\* analyze_code: one execution on the generator's result r.
analyze_code(r) ==
    IF r.failed THEN Raised(<<"exec_prompt failed">>) ELSE Returned(Calldata(r.val))

\* str(x) of a member value: the decimal form of an int, a str as it is.
PyStr(v) == IF v.t = "int" THEN VStr(ToString(v.n)) ELSE VStr(v.s)

\* Generator results for the review prompt: the members the contract reads.
Review(score) ==
    << <<"score", score>>, <<"security", VInt(7)>>, <<"summary", VStr("brief summary")>> >>

ReviewResults ==
    { LlmResult(PyDict(Review(VInt(7)))),
      LlmResult(PyDict(Reversed(Review(VInt(7))))),
      LlmResult(PyDict(Review(VInt(1)))),
      LlmResult(PyDict(Review(VInt(10)))),
      \* scores outside 1..10, a score that is no number, no score, no object
      LlmResult(PyDict(Review(VInt(0)))),
      LlmResult(PyDict(Review(VInt(11)))),
      LlmResult(PyDict(Review(VStr("excellent")))),
      LlmResult(PyDict(SubSeq(Review(VInt(7)), 2, 3))),
      LlmResult(PyList),
      LlmFailure }

ReviewAlternates ==
    { LlmResult(PyDict(Review(VInt(7)))), LlmResult(PyDict(Reversed(Review(VInt(7))))) }

AnalyzeCodeRuns == [r \in ReviewResults |-> analyze_code(r)]

CodeSnippets == {[code |-> Str("def f(): pass", 13, 0), language |-> Str("python", 6, 0)]}

review_code(code, language) ==
    LET op == "review_code"
        args == [code |-> code, language |-> language]
    IN
    /\ active = "CodeReviewJudge"
    /\ total_reviews < MaxCalls
    /\ UNCHANGED <<active, total_notarizations, total_checks, fetches, disputes, evaluations,
                   dao_evaluations, latest_message, latest_sender, history, submitted, pc, loc>>
    /\ \E e \in Executions(ReviewResults, ReviewAlternates) :
         LET c == strict_eq(AnalyzeCodeRuns[e[1]], AnalyzeCodeRuns[e[2]])
             cs == Consensus(c, AnalyzeCodeRuns[e[1]], AnalyzeCodeRuns[e[2]],
                             e[1].failed \/ e[2].failed, e)
             result == c.val
         IN  IF c.status # "agreed"
             THEN /\ last' = Call(op, EmptyStr, args, ConsensusError(c), TRUE, PyNone, cs)
                  /\ UNCHANGED total_reviews
             ELSE IF result.k # "dict"
             THEN /\ last' = Call(op, EmptyStr, args, "AttributeError", TRUE, PyNone, cs)
                  /\ UNCHANGED total_reviews
             ELSE /\ total_reviews' = Increment(total_reviews)
                  /\ last' = Call(op, EmptyStr, args, "ok", TRUE,
                                  PyStr(DictGet(result.pairs, "score", VInt(5))), cs)

review_code_full(code, language) ==
    LET op == "review_code_full"
        args == [code |-> code, language |-> language]
    IN
    /\ active = "CodeReviewJudge"
    /\ total_reviews < MaxCalls
    /\ UNCHANGED <<active, total_notarizations, total_checks, fetches, disputes, evaluations,
                   dao_evaluations, latest_message, latest_sender, history, submitted, pc, loc>>
    /\ \E e \in Executions(ReviewResults, ReviewAlternates) :
         LET c == strict_eq(AnalyzeCodeRuns[e[1]], AnalyzeCodeRuns[e[2]])
             cs == Consensus(c, AnalyzeCodeRuns[e[1]], AnalyzeCodeRuns[e[2]],
                             e[1].failed \/ e[2].failed, e)
         IN  IF c.status # "agreed"
             THEN /\ last' = Call(op, EmptyStr, args, ConsensusError(c), TRUE, PyNone, cs)
                  /\ UNCHANGED total_reviews
             ELSE /\ total_reviews' = Increment(total_reviews)
                  /\ last' = Call(op, EmptyStr, args, "ok", TRUE, c.val, cs)

\* int(self.total_reviews)
get_total_reviews ==
    /\ active = "CodeReviewJudge"
    /\ last' = Call("get_total_reviews", EmptyStr, <<>>, "ok", FALSE, VInt(total_reviews),
                    NoConsensus)
    /\ UNCHANGED <<active, total_reviews, total_notarizations, total_checks, fetches, disputes,
                   evaluations, dao_evaluations, latest_message, latest_sender, history, submitted, pc,
                   loc>>

Contracts ==
    {"DisputeResolution", "DAOProposalEvaluator", "DaoProposalEvaluator", "FriendlyGuestbook",
     "AINotary", "VibeCheck", "CodeReviewJudge"}

Init ==
    /\ active \in Contracts
    /\ disputes = EmptyMap
    /\ evaluations = EmptyMap
    /\ dao_evaluations = EmptyMap
    /\ latest_message = Str("Welcome to GenLayer!", 20, 0)
    /\ latest_sender = Str("System", 6, 0)
    /\ total_notarizations = 0
    /\ total_checks = 0
    /\ total_reviews = 0
    /\ fetches = {}
    /\ last = Call("__init__", EmptyStr, <<>>, "ok", FALSE, PyNone, NoConsensus)
    /\ history = [x \in {} |-> [ret |-> PyNone, writes |-> 0]]
    /\ submitted = <<>>
    /\ pc = [p \in {} |-> "idle"]
    /\ loc = [p \in {} |-> <<>>]

Next ==
    \/ \E x \in DisputeInputs :
            submit_dispute(x.dispute_id, x.party_a_name, x.party_a_argument,
                           x.party_b_name, x.party_b_argument)
    \/ \E id \in DisputeIds : get_ruling(id)
    \/ \E id \in DisputeIds : dispute_exists(id)
    \/ get_all_dispute_ids
    \/ \E t \in Proposals, x \in ProposalContexts : DAOProposalEvaluator_submit_proposal(t, x)
    \/ \E t \in Proposals : DAOProposalEvaluator_get_evaluation(t)
    \/ \E t \in DaoProposals : DaoProposalEvaluator_submit_proposal(t)
    \/ \E h \in DaoHashes : DaoProposalEvaluator_get_evaluation(h)
    \/ \E h \in DaoHashes : has_evaluation(h)
    \/ \E m \in Messages, a \in Senders : sign_guestbook(m, a)
    \/ get_latest_entry
    \/ \E q \in NotaryClaims, u \in SourceUrls : notarize_event(q, u)
    \/ \E q \in NotaryClaims, u \in SourceUrls : notarize_event_full(q, u)
    \/ \E q \in NotaryClaims, x \in EvidenceTexts : notarize_without_url(q, x)
    \/ get_total_notarizations
    \/ \E x \in Statements : check_vibe(x)
    \/ \E x \in Statements : check_vibe_full(x)
    \/ get_total_checks
    \/ \E x \in CodeSnippets : review_code(x.code, x.language)
    \/ \E x \in CodeSnippets : review_code_full(x.code, x.language)
    \/ get_total_reviews

Spec == Init /\ [][Next]_vars

(***************************************************************************)
(* Two local callers whose submit calls interleave: each call is the       *)
(* sequence existence check, consensus, write of the method's body.        *)
(***************************************************************************)
Callers == {1, 2}

NoLocals == [args |-> <<>>, key |-> EmptyStr, result |-> PyNone, consensus |-> NoConsensus]

ConcDisputeInputs ==
    {x \in DisputeInputs : x.party_a_name.s # "Carol" /\ x.party_a_argument.len <= 20}

ConcProposals == {t \in Proposals : t.len <= 40}

\* submit_dispute up to the existence check (lines 64-90).
submit_dispute_check(p, x) ==
    /\ active = "DisputeResolution"
    /\ pc[p] = "idle"
    /\ UNCHANGED <<active, total_reviews, total_notarizations, total_checks, fetches, disputes, evaluations, dao_evaluations, latest_message,
                   latest_sender, history, submitted>>
    /\ IF DisputeInputError(x.dispute_id, x.party_a_name, x.party_a_argument,
                            x.party_b_name, x.party_b_argument) # ""
       THEN /\ last' = Call("submit_dispute", x.dispute_id, x, "InputValidationError", FALSE, PyNone, NoConsensus)
            /\ UNCHANGED <<pc, loc>>
       ELSE IF TreeGet(disputes, x.dispute_id).found
       THEN /\ last' = Call("submit_dispute", x.dispute_id, x, "DuplicateKeyError", FALSE, PyNone, NoConsensus)
            /\ UNCHANGED <<pc, loc>>
       ELSE /\ pc' = [pc EXCEPT ![p] = "checked"]
            /\ loc' = [loc EXCEPT ![p] = [args |-> x, key |-> x.dispute_id, result |-> PyNone,
                                          consensus |-> NoConsensus]]
            /\ UNCHANGED last

\* The call of _arbitrate_dispute (lines 93-100).
submit_dispute_arbitrate(p) ==
    /\ active = "DisputeResolution"
    /\ pc[p] = "checked"
    /\ UNCHANGED <<active, total_reviews, total_notarizations, total_checks, fetches, disputes, evaluations, dao_evaluations, latest_message,
                   latest_sender, history, submitted>>
    /\ LET x == loc[p].args
           runs == ArbitrationRuns(x.dispute_id, x.party_a_name, x.party_b_name) IN
       \E e \in Executions(DisputeResponses, DisputeAlternates) :
         LET c == _arbitrate_dispute(runs, e[1], e[2])
             cs == Consensus(c, runs[e[1]], runs[e[2]], e[1].failed \/ e[2].failed, e) IN
         IF c.status # "agreed"
         THEN /\ last' = Call("submit_dispute", x.dispute_id, x, ConsensusError(c), TRUE, PyNone, cs)
              /\ pc' = [pc EXCEPT ![p] = "idle"]
              /\ loc' = [loc EXCEPT ![p] = NoLocals]
         ELSE /\ pc' = [pc EXCEPT ![p] = "agreed"]
              /\ loc' = [loc EXCEPT ![p].result = JsonLoads(c.val).val,
                                     ![p].consensus = cs]
              /\ UNCHANGED last

\* The write and the return (lines 103-105).
submit_dispute_store(p) ==
    /\ active = "DisputeResolution"
    /\ pc[p] = "agreed"
    /\ disputes' = TreeSet(disputes, loc[p].key, JsonDumps(loc[p].result, FALSE))
    /\ history' = Committed(history, loc[p].key, loc[p].result)
    /\ UNCHANGED submitted
    /\ last' = Call("submit_dispute", loc[p].key, loc[p].args, "ok", TRUE, loc[p].result,
                    loc[p].consensus)
    /\ pc' = [pc EXCEPT ![p] = "idle"]
    /\ loc' = [loc EXCEPT ![p] = NoLocals]
    /\ UNCHANGED <<active, total_reviews, total_notarizations, total_checks, fetches, evaluations, dao_evaluations, latest_message, latest_sender>>

\* DAOProposalEvaluator.submit_proposal up to the existence check (lines 410-422).
submit_proposal_check(p, proposal_text) ==
    LET proposal_hash == DAOProposalEvaluator_hash_proposal(proposal_text)
        op == "DAOProposalEvaluator.submit_proposal"
    IN
    /\ active = "DAOProposalEvaluator"
    /\ pc[p] = "idle"
    /\ UNCHANGED <<active, total_reviews, total_notarizations, total_checks, fetches, disputes, evaluations, dao_evaluations, latest_message,
                   latest_sender, history, submitted>>
    /\ IF ProposalInputError(proposal_text) # ""
       THEN /\ last' = Call(op, proposal_text, <<>>, "InputValidationError", FALSE, PyNone, NoConsensus)
            /\ UNCHANGED <<pc, loc>>
       ELSE IF TreeGet(evaluations, proposal_hash).found
       THEN /\ last' = Call(op, proposal_text, <<>>, "ok", FALSE,
                            JsonLoads(TreeGet(evaluations, proposal_hash).val).val, NoConsensus)
            /\ UNCHANGED <<pc, loc>>
       ELSE /\ pc' = [pc EXCEPT ![p] = "checked"]
            /\ loc' = [loc EXCEPT ![p] =
                          [args |-> proposal_text, key |-> proposal_hash, result |-> PyNone,
                           consensus |-> NoConsensus]]
            /\ UNCHANGED last

\* The call of _evaluate_proposal (lines 425-430).
submit_proposal_evaluate(p) ==
    /\ active = "DAOProposalEvaluator"
    /\ pc[p] = "checked"
    /\ UNCHANGED <<active, total_reviews, total_notarizations, total_checks, fetches, disputes, evaluations, dao_evaluations, latest_message,
                   latest_sender, history, submitted>>
    /\ \E e \in Executions(EvaluationResponses, EvaluationAlternates) :
         LET c == _evaluate_proposal(e[1], e[2])
             cs == Consensus(c, EvaluationRuns[e[1]], EvaluationRuns[e[2]],
                             e[1].failed \/ e[2].failed, e) IN
         IF c.status # "agreed"
         THEN /\ last' = Call("DAOProposalEvaluator.submit_proposal", loc[p].args, <<>>,
                              ConsensusError(c), TRUE, PyNone, cs)
              /\ pc' = [pc EXCEPT ![p] = "idle"]
              /\ loc' = [loc EXCEPT ![p] = NoLocals]
         ELSE /\ pc' = [pc EXCEPT ![p] = "agreed"]
              /\ loc' = [loc EXCEPT ![p].result = JsonLoads(c.val).val,
                                     ![p].consensus = cs]
              /\ UNCHANGED last

\* The write and the return (lines 433-435).
submit_proposal_store(p) ==
    /\ active = "DAOProposalEvaluator"
    /\ pc[p] = "agreed"
    /\ evaluations' = TreeSet(evaluations, loc[p].key, JsonDumps(loc[p].result, FALSE))
    /\ history' = Committed(history, loc[p].key, loc[p].result)
    /\ UNCHANGED submitted
    /\ last' = Call("DAOProposalEvaluator.submit_proposal", loc[p].args, <<>>, "ok", TRUE,
                    loc[p].result, loc[p].consensus)
    /\ pc' = [pc EXCEPT ![p] = "idle"]
    /\ loc' = [loc EXCEPT ![p] = NoLocals]
    /\ UNCHANGED <<active, total_reviews, total_notarizations, total_checks, fetches, disputes, dao_evaluations, latest_message, latest_sender>>

InitConc ==
    /\ active \in {"DisputeResolution", "DAOProposalEvaluator"}
    /\ disputes = EmptyMap
    /\ evaluations = EmptyMap
    /\ dao_evaluations = EmptyMap
    /\ latest_message = Str("Welcome to GenLayer!", 20, 0)
    /\ latest_sender = Str("System", 6, 0)
    /\ total_notarizations = 0
    /\ total_checks = 0
    /\ total_reviews = 0
    /\ fetches = {}
    /\ last = Call("__init__", EmptyStr, <<>>, "ok", FALSE, PyNone, NoConsensus)
    /\ history = [x \in {} |-> [ret |-> PyNone, writes |-> 0]]
    /\ submitted = <<>>
    /\ pc = [p \in Callers |-> "idle"]
    /\ loc = [p \in Callers |-> NoLocals]

NextConc ==
    \/ \E p \in Callers, x \in ConcDisputeInputs : submit_dispute_check(p, x)
    \/ \E p \in Callers : submit_dispute_arbitrate(p)
    \/ \E p \in Callers : submit_dispute_store(p)
    \/ \E p \in Callers, t \in ConcProposals : submit_proposal_check(p, t)
    \/ \E p \in Callers : submit_proposal_evaluate(p)
    \/ \E p \in Callers : submit_proposal_store(p)

SpecConc == InitConc /\ [][NextConc]_vars

(***************************************************************************)
(* Properties                                                              *)
(***************************************************************************)
SubmitProposalA == "DAOProposalEvaluator.submit_proposal"

SubmitProposalB == "DaoProposalEvaluator.submit_proposal"

Preserved(m, n) == \A k \in DOMAIN m : k \in DOMAIN n /\ n[k] = m[k]

\* C1: once a submit_proposal(t) has committed record R, every later
\* submit_proposal(t), of either evaluator, ends normally, returns R, invokes no
\* generator and leaves the ledger as it was.
C1_Idempotent ==
    [][ /\ ( /\ last'.op = SubmitProposalA
             /\ DAOProposalEvaluator_hash_proposal(last'.key) \in DOMAIN history )
           => /\ last'.outcome = "ok"
              /\ ~last'.oracle
              /\ PyEq(last'.ret, history[DAOProposalEvaluator_hash_proposal(last'.key)].ret)
              /\ evaluations' = evaluations
        /\ ( /\ last'.op = SubmitProposalB
             /\ DaoProposalEvaluator_hash_proposal(last'.key) \in DOMAIN history )
           => /\ last'.outcome = "ok"
              /\ ~last'.oracle
              /\ PyEq(last'.ret, history[DaoProposalEvaluator_hash_proposal(last'.key)].ret)
              /\ dao_evaluations' = dao_evaluations ]_vars

\* A second submit_proposal of a committed text, with other context values,
\* answered from the ledger.
C1_Witness ==
    /\ last.op = SubmitProposalA
    /\ last.outcome = "ok"
    /\ ~last.oracle
    /\ last.args.budget = 50000
    /\ DAOProposalEvaluator_hash_proposal(last.key) \in DOMAIN history
    /\ PyEq(last.ret, history[DAOProposalEvaluator_hash_proposal(last.key)].ret)

\* C2: submit_dispute with valid arguments and a dispute_id the ledger holds
\* ends with the duplicate error, invokes no generator, and leaves the ledger,
\* the stored ruling included, as it was.
C2_DuplicateRejected ==
    [][ ( /\ last'.op = "submit_dispute"
          /\ last'.key \in DOMAIN disputes
          /\ DisputeInputError(last'.args.dispute_id, last'.args.party_a_name,
                               last'.args.party_a_argument, last'.args.party_b_name,
                               last'.args.party_b_argument) = "" )
        => /\ last'.outcome = "DuplicateKeyError"
           /\ ~last'.oracle
           /\ disputes' = disputes ]_vars

\* A rejected submit_dispute whose party A is not the stored ruling's.
C2_Witness ==
    /\ last.op = "submit_dispute"
    /\ last.outcome = "DuplicateKeyError"
    /\ last.key \in DOMAIN disputes
    /\ Lookup(JsonLoads(disputes[last.key]).val.pairs, "party_a_name")
         # VStr(last.args.party_a_name.s)

\* C3: in each ledger a key that holds a record holds that record after every
\* call.
C3_AppendOnly ==
    [][ /\ Preserved(disputes, disputes')
        /\ Preserved(evaluations, evaluations')
        /\ Preserved(dao_evaluations, dao_evaluations') ]_vars

\* A submit_dispute committed under a second key, beside an earlier ruling.
C3_Witness ==
    /\ last.op = "submit_dispute"
    /\ last.outcome = "ok"
    /\ Cardinality(DOMAIN disputes) = 2

\* C4: no ledger key is written more than once, also when the submit calls of
\* two local callers interleave.
C4_NoDoubleCommit == \A k \in DOMAIN history : history[k].writes <= 1

(***************************************************************************)
(* The schemas of the stored records.                                      *)
(***************************************************************************)
IntIn(v, lo, hi) == v.t = "int" /\ v.n >= lo /\ v.n <= hi

IsText(v) == v.t = "str"

HasFields(v, fields) == v.k = "dict" /\ \A i \in DOMAIN fields : fields[i] \in Keys(v.pairs)

RulingSchema(v) ==
    /\ HasFields(v, ArbitrationFields)
    /\ Lookup(v.pairs, "winner") \in {VStr("party_a"), VStr("party_b"), VStr("split")}
    /\ Lookup(v.pairs, "confidence") \in {VStr("high"), VStr("medium"), VStr("low"), VStr("split")}
    /\ IntIn(Lookup(v.pairs, "party_a_score"), 0, 40)
    /\ IntIn(Lookup(v.pairs, "party_b_score"), 0, 40)
    /\ IsText(Lookup(v.pairs, "reasoning"))
    /\ Lookup(v.pairs, "key_factors").t = "list"

EvaluationSchema(v) ==
    /\ HasFields(v, EvaluationFields)
    /\ \A i \in DOMAIN ScoreFields : IntIn(Lookup(v.pairs, ScoreFields[i]), 0, 10)
    /\ IntIn(Lookup(v.pairs, "final_score"), 0, 100)
    /\ Lookup(v.pairs, "verdict") \in Verdicts
    /\ IsText(Lookup(v.pairs, "summary"))

DaoEvaluationSchema(v) ==
    /\ HasFields(v, <<"final_score", "verdict", "scores", "summary">>)
    /\ IntIn(Lookup(v.pairs, "final_score"), 0, 100)
    /\ Lookup(v.pairs, "verdict") \in Verdicts
    /\ Lookup(v.pairs, "scores").t = "obj"
    /\ Lookup(v.pairs, "scores").s = "clarity,feasibility,risk,alignment,budget,completeness"
    /\ Lookup(v.pairs, "scores").n \in 0..10
    /\ IsText(Lookup(v.pairs, "summary"))

Stored(m, k) == JsonLoads(m[k])

\* C5: every stored record parses to a value that has every required field of
\* its schema with every value in range, or is the schema's fallback record.
C5_SchemaInvariant ==
    /\ \A k \in DOMAIN disputes :
          Stored(disputes, k).ok /\ RulingSchema(Stored(disputes, k).val)
    /\ \A k \in DOMAIN evaluations :
          Stored(evaluations, k).ok /\ EvaluationSchema(Stored(evaluations, k).val)
    /\ \A k \in DOMAIN dao_evaluations :
          /\ Stored(dao_evaluations, k).ok
          /\ \/ DaoEvaluationSchema(Stored(dao_evaluations, k).val)
             \/ PyEq(Stored(dao_evaluations, k).val, FallbackEvaluation)

\* C6: a call whose two executions did not return the identical value ends
\* with the consensus-disagreement error and changes neither a ledger nor the
\* guestbook's entry.
C6_ConsensusStrict ==
    [][ (last'.oracle /\ ~last'.consensus.same)
        => /\ last'.outcome = "ConsensusDisagreementError"
           /\ UNCHANGED <<disputes, evaluations, dao_evaluations, latest_message,
                          latest_sender>> ]_vars

\* A submit_dispute that ended in disagreement over a ledger that holds a ruling.
C6_Witness ==
    /\ last.op = "submit_dispute"
    /\ last.oracle
    /\ ~last.consensus.same
    /\ last.outcome = "ConsensusDisagreementError"
    /\ DOMAIN disputes # {}

\* The agreed output of DaoProposalEvaluator's block is malformed: no JSON, or
\* JSON that does not satisfy the schema.
DaoMalformed(text) == ~JsonLoads(text).ok \/ ~DaoEvaluationSchema(JsonLoads(text).val)

\* C7: a DaoProposalEvaluator.submit_proposal whose agreed generator output is
\* malformed returns and stores exactly the fallback record.
C7_FallbackTotality ==
    ( /\ last.op = SubmitProposalB
      /\ last.oracle
      /\ last.consensus.status = "agreed"
      /\ ~last.consensus.failed
      /\ DaoMalformed(last.consensus.val) )
    => /\ last.outcome = "ok"
       /\ PyEq(last.ret, FallbackEvaluation)
       /\ PyEq(Stored(dao_evaluations, DaoProposalEvaluator_hash_proposal(last.key)).val,
               FallbackEvaluation)

\* C8: no submit_dispute and no submit_proposal ends with the error its block
\* raised for an unparsable, incomplete or out-of-range generator output.
C8_NoFormatErrorOutward ==
    ( /\ last.op \in {"submit_dispute", SubmitProposalA, SubmitProposalB}
      /\ last.oracle
      /\ last.consensus.same
      /\ ~last.consensus.failed )
    => last.outcome = "ok"

\* C9: a DaoProposalEvaluator.submit_proposal whose generator call failed ends
\* with an error, or returns and stores exactly the fallback record.
C9_OracleFailurePolicy ==
    ( /\ last.op = SubmitProposalB
      /\ last.oracle
      /\ last.consensus.failed )
    => \/ last.outcome # "ok"
       \/ /\ PyEq(last.ret, FallbackEvaluation)
          /\ PyEq(Stored(dao_evaluations, DaoProposalEvaluator_hash_proposal(last.key)).val,
                  FallbackEvaluation)

\* C10: a sign_guestbook whose agreed moderation result is YES ends with the
\* rejection error and leaves latest_message and latest_sender as they were.
C10_VetoKeepsEntry ==
    [][ ( /\ last'.op = "sign_guestbook"
          /\ last'.consensus.status = "agreed"
          /\ last'.consensus.val = Str("YES", 3, 0) )
        => /\ last'.outcome = "PolicyRejectionError"
           /\ latest_message' = latest_message
           /\ latest_sender' = latest_sender ]_vars

\* A vetoed sign_guestbook of another message by another sender than the
\* stored entry's, which an earlier call wrote.
C10_Witness ==
    /\ last.op = "sign_guestbook"
    /\ last.outcome = "PolicyRejectionError"
    /\ latest_sender # Str("System", 6, 0)
    /\ latest_message # last.args.message
    /\ latest_sender # StrOfAddress(last.args.sender_address)

\* The claim's invalid submit_dispute inputs: an empty id or party name, an
\* argument under 20 characters once trimmed, or over 10000 characters.
InvalidDisputeInput(a) ==
    \/ a.dispute_id.len = 0
    \/ a.party_a_name.len = 0
    \/ a.party_b_name.len = 0
    \/ a.party_a_argument.len - a.party_a_argument.pad < 20
    \/ a.party_b_argument.len - a.party_b_argument.pad < 20
    \/ a.party_a_argument.len > 10000
    \/ a.party_b_argument.len > 10000

InvalidProposalInput(t) == t.len - t.pad < 20 \/ t.len > 50000

\* C11: submit_dispute and DAOProposalEvaluator.submit_proposal called with an
\* invalid input end with the validation error, invoke no generator and leave
\* the ledger as it was.
C11_ValidationFailsFast ==
    [][ /\ (last'.op = "submit_dispute" /\ InvalidDisputeInput(last'.args))
           => /\ last'.outcome = "InputValidationError"
              /\ ~last'.oracle
              /\ disputes' = disputes
        /\ (last'.op = SubmitProposalA /\ InvalidProposalInput(last'.key))
           => /\ last'.outcome = "InputValidationError"
              /\ ~last'.oracle
              /\ evaluations' = evaluations ]_vars

\* A submit_dispute with a party A argument of 15 characters, rejected over a
\* ledger that holds a ruling.
C11_Witness ==
    /\ last.op = "submit_dispute"
    /\ last.args.party_a_argument.len = 15
    /\ last.outcome = "InputValidationError"
    /\ DOMAIN disputes # {}

\* The URL's host is one of the blocked domains, in whatever case it is written.
HostDenied(url) == Len(url.host) = 1 /\ url.host[1].c \in blocked

\* C12: notarize_event and notarize_event_full called with a URL whose host is
\* a blocked domain return the error result, render no page and invoke no
\* generator.
C12_DenialBeforeFetch ==
    [][ ( /\ last'.op \in {"notarize_event", "notarize_event_full"}
          /\ HostDenied(last'.args.source_url) )
        => /\ last'.outcome = "ok"
           /\ ~last'.oracle
           /\ fetches' = fetches
           /\ last'.op = "notarize_event" => last'.ret = BlockedMessage
           /\ last'.op = "notarize_event_full"
                => Lookup(last'.ret.pairs, "status") = VStr("ERROR") ]_vars

\* A notarize_event_full of the upper-case blocked host, denied after another
\* call rendered a page.
C12_Witness ==
    /\ last.op = "notarize_event_full"
    /\ last.args.source_url.host = <<Chunk("twitter.com", TRUE)>>
    /\ ~last.oracle
    /\ last.ret = BlockedResult
    /\ fetches # {}

\* The verdict the prompt's thresholds give a final score.
VerdictOf(final_score) ==
    IF final_score >= 70 THEN "approve" ELSE IF final_score >= 40 THEN "revise" ELSE "reject"

\* C13: every evaluation DAOProposalEvaluator holds has the verdict of its
\* final_score: approve from 70, revise from 40 to 69, reject below 40.
C13_VerdictFollowsScore ==
    \A k \in DOMAIN evaluations :
        LET v == Stored(evaluations, k).val IN
        Lookup(v.pairs, "verdict") = VStr(VerdictOf(Lookup(v.pairs, "final_score").n))

\* C14: a sign_guestbook(m) by sender s whose agreed moderation result is NO
\* stores m and the 42 character text of s as they were passed;
\* get_latest_entry returns the stored pair; and the pair changes in no step
\* but a sign_guestbook that returns.
C14_StoredVerbatim ==
    [][ /\ ( /\ last'.op = "sign_guestbook"
             /\ last'.consensus.status = "agreed"
             /\ last'.consensus.val = Str("NO", 2, 0) )
           => /\ last'.outcome = "ok"
              /\ latest_message' = last'.args.message
              /\ latest_sender' = Str(last'.args.sender_address, 42, 0)
        /\ last'.op = "get_latest_entry"
           => /\ last'.ret.message = latest_message
              /\ last'.ret.sender = latest_sender
        /\ ~(last'.op = "sign_guestbook" /\ last'.outcome = "ok")
           => /\ latest_message' = latest_message
              /\ latest_sender' = latest_sender ]_vars

\* A sign_guestbook of the second sender, accepted on an agreed NO and stored.
C14_Witness ==
    /\ last.op = "sign_guestbook"
    /\ last.consensus.val = Str("NO", 2, 0)
    /\ last.outcome = "ok"
    /\ last.args.sender_address = "0xB0B"
    /\ latest_message = Str("spam spam", 9, 0)
    /\ latest_sender = Str("0xB0B", 42, 0)

\* The payload a generator output carries once its wrapping is removed.
Payload(r) == JsonLoads(CleanResponse(r))

\* Two outputs are JSON objects with the same members: they differ at most in
\* key order, whitespace and wrapping.
SameStructure(r1, r2) ==
    /\ ~r1.failed /\ ~r2.failed
    /\ Payload(r1).ok /\ Payload(r2).ok
    /\ Payload(r1).val.k = "dict"
    /\ PyEq(Payload(r1).val, Payload(r2).val)

SchemaOf(op, v) ==
    CASE op = "submit_dispute" -> RulingSchema(v)
      [] op = SubmitProposalA  -> EvaluationSchema(v)
      [] op = SubmitProposalB  -> DaoEvaluationSchema(v)

\* C15: a submit_dispute or submit_proposal whose two executions received
\* schema-valid outputs that are structurally equal (differing only in key
\* order or whitespace) reaches agreement and commits.
C15_CanonicalComparison ==
    ( /\ last.op \in {"submit_dispute", SubmitProposalA, SubmitProposalB}
      /\ last.oracle
      /\ SameStructure(last.consensus.outputs[1], last.consensus.outputs[2])
      /\ SchemaOf(last.op, Payload(last.consensus.outputs[1]).val) )
    => /\ last.consensus.status = "agreed"
       /\ last.outcome = "ok"

\* The entries of ledger m that hold structurally equal records hold the same string.
OneSerialization(m) ==
    \A k1, k2 \in DOMAIN m :
        PyEq(Stored(m, k1).val, Stored(m, k2).val) => m[k1] = m[k2]

\* C16: in every ledger, records that are structurally equal (same keys and
\* values, whatever order the generator wrote them in) are stored as identical
\* strings.
C16_OneSerialization ==
    /\ OneSerialization(disputes)
    /\ OneSerialization(evaluations)
    /\ OneSerialization(dao_evaluations)

\* C17: get_all_dispute_ids returns the committed dispute ids, each once, in
\* ascending order, and nothing else.
C17_KeyListing ==
    last.op = "get_all_dispute_ids"
    => LET ids == last.ret.items IN
       /\ {ids[i] : i \in DOMAIN ids} = DOMAIN history
       /\ DOMAIN history = DOMAIN disputes
       /\ Len(ids) = Cardinality(DOMAIN history)
       /\ \A i, j \in DOMAIN ids : i < j => StrLess(ids[i], ids[j])

\* A listing of MaxKeys committed ids.
C17_Witness ==
    /\ last.op = "get_all_dispute_ids"
    /\ Len(last.ret.items) = MaxKeys

\* C18: on one state and one key, dispute_exists answers TRUE exactly when
\* get_ruling returns a ruling rather than None, and has_evaluation answers
\* TRUE exactly when get_evaluation returns something other than {}.  (The two
\* views are called one after the other; neither changes the state.)
C18_ExistsGetAgree ==
    [][ /\ ( /\ last.op = "dispute_exists"
             /\ last'.op = "get_ruling"
             /\ last'.key = last.key )
           => (last.ret.b <=> last'.ret # PyNone)
        /\ ( /\ last.op = "DaoProposalEvaluator.has_evaluation"
             /\ last'.op = "DaoProposalEvaluator.get_evaluation"
             /\ last'.key = last.key )
           => (last.ret.b <=> ~PyEq(last'.ret, PyDict(<<>>))) ]_vars

\* C19: DaoProposalEvaluator.submit_proposal called with the empty text ends
\* with the validation error, invokes no generator and commits nothing.
C19_EmptyTextRejected ==
    (last.op = SubmitProposalB /\ last.key.len = 0)
    => /\ last.outcome = "InputValidationError"
       /\ ~last.oracle
       /\ DaoProposalEvaluator_hash_proposal(last.key) \notin DOMAIN dao_evaluations

\* C20: every value check_vibe returns is the string PASS or the string FAIL.
C20_PassOrFail ==
    (last.op = "check_vibe" /\ last.outcome = "ok")
    => last.ret \in {VStr("PASS"), VStr("FAIL")}

\* C21: every value notarize_event returns from an agreed generator result is
\* the string VERIFIED or the string UNVERIFIED.
C21_VerifiedOrUnverified ==
    ( /\ last.op = "notarize_event"
      /\ last.consensus.status = "agreed"
      /\ last.outcome = "ok" )
    => last.ret \in {VStr("VERIFIED"), VStr("UNVERIFIED")}

\* C22: every value review_code returns is the decimal form of an integer
\* from 1 to 10.
C22_ScoreOneToTen ==
    (last.op = "review_code" /\ last.outcome = "ok")
    => \E i \in 1..10 : last.ret = VStr(ToString(i))

\* C23: get_ruling(id) and get_evaluation(t) return a record equal to the one
\* the submit_dispute(id, ...), respectively submit_proposal(t, ...), that
\* committed it returned, after whatever calls came in between.
C23_SubmitGetRoundTrip ==
    [][ /\ ( /\ last'.op = "get_ruling"
             /\ last'.key \in DOMAIN history )
           => /\ last'.outcome = "ok"
              /\ PyEq(last'.ret, history[last'.key].ret)
        /\ ( /\ last'.op = "DAOProposalEvaluator.get_evaluation"
             /\ DAOProposalEvaluator_hash_proposal(last'.key) \in DOMAIN history )
           => /\ last'.outcome = "ok"
              /\ PyEq(last'.ret, history[DAOProposalEvaluator_hash_proposal(last'.key)].ret)
      ]_vars

\* get_ruling returns the ruling of a dispute submitted before another one was.
C23_Witness ==
    /\ last.op = "get_ruling"
    /\ last.key \in DOMAIN history
    /\ Cardinality(DOMAIN disputes) = MaxKeys
    /\ last.ret.k = "dict"
    /\ PyEq(last.ret, history[last.key].ret)

\* C24: latest_message and latest_sender change only in a sign_guestbook whose
\* agreed moderation result is NO; an agreed result outside {YES, NO} stores
\* nothing.
C24_StoresOnlyOnNo ==
    [][ (latest_message' # latest_message \/ latest_sender' # latest_sender)
        => /\ last'.op = "sign_guestbook"
           /\ last'.consensus.status = "agreed"
           /\ last'.consensus.val = Str("NO", 2, 0) ]_vars

\* C25: notarize_event and notarize_event_full deny a source_url exactly when
\* its host is a blocked domain; a URL with another host, whatever the host
\* contains and whatever its path carries, goes on to the fetch.
C25_DenylistMatchesHost ==
    [][ last'.op \in {"notarize_event", "notarize_event_full"}
        => (~last'.oracle <=> HostDenied(last'.args.source_url)) ]_vars

\* C26: DAOProposalEvaluator.submit_proposal writes under the hash of the text
\* alone, and a submit_proposal of a text that a call has committed returns the
\* evaluation that call returned, invokes no generator and leaves the ledger as
\* it was, whatever budget, timeline and dao_mission either call was given.
C26_DedupIgnoresContext ==
    [][ last'.op = SubmitProposalA
        => /\ \A k \in DOMAIN evaluations' \ DOMAIN evaluations :
                k = DAOProposalEvaluator_hash_proposal(last'.key)
           /\ \A k \in DOMAIN submitted :
                submitted[k].text = last'.key
                => /\ last'.outcome = "ok"
                   /\ ~last'.oracle
                   /\ PyEq(last'.ret, history[k].ret)
                   /\ evaluations' = evaluations ]_vars

\* A submit_proposal answered from the ledger, whose budget, timeline and
\* dao_mission all differ from those of the call that committed the text.
C26_Witness ==
    /\ last.op = SubmitProposalA
    /\ last.outcome = "ok"
    /\ ~last.oracle
    /\ \E k \in DOMAIN submitted :
         /\ submitted[k].text = last.key
         /\ submitted[k].args.budget # last.args.budget
         /\ submitted[k].args.timeline # last.args.timeline
         /\ submitted[k].args.dao_mission # last.args.dao_mission
         /\ PyEq(last.ret, history[k].ret)

\* The one value the stored ruling under key k holds for member name.
StoredMember(k, name) ==
    LET pairs == JsonLoads(disputes[k]).val.pairs
    IN  {pairs[i][2] : i \in {j \in DOMAIN pairs : pairs[j][1] = name}}

\* C27: every ruling the ledger holds under a key k has dispute_id k and the
\* party names given to the submit_dispute that stored it, whatever the
\* generator output held for these members.
C27_MetadataMatchesKey ==
    (active = "DisputeResolution") =>
    \A k \in DOMAIN disputes :
        /\ k \in DOMAIN submitted
        /\ StoredMember(k, "dispute_id") = {VStr(k.s)}
        /\ StoredMember(k, "party_a_name") = {VStr(submitted[k].args.party_a_name.s)}
        /\ StoredMember(k, "party_b_name") = {VStr(submitted[k].args.party_b_name.s)}

\* A ruling stored from a generator output that carried a dispute_id and a
\* party_a_name of its own.
C27_Witness ==
    /\ last.op = "submit_dispute"
    /\ last.outcome = "ok"
    /\ last.key \in DOMAIN disputes
    /\ <<"dispute_id", VStr("forged")>> \in
         {last.consensus.outputs[1].text.pairs[i] :
            i \in DOMAIN last.consensus.outputs[1].text.pairs}
    /\ StoredMember(last.key, "dispute_id") = {VStr(last.key.s)}
    /\ StoredMember(last.key, "party_a_name") = {VStr(last.args.party_a_name.s)}

\* The write calls and the view calls of the three counting contracts.
CountedWrites ==
    {"notarize_event", "notarize_event_full", "notarize_without_url", "check_vibe",
     "check_vibe_full", "review_code", "review_code_full"}

CounterViews == {"get_total_notarizations", "get_total_checks", "get_total_reviews"}

\* The counter of the deployed contract.
Counter ==
    CASE active = "AINotary" -> total_notarizations
      [] active = "VibeCheck" -> total_checks
      [] active = "CodeReviewJudge" -> total_reviews
      [] OTHER -> 0

\* C28: the counters of CodeReviewJudge, VibeCheck and AINotary start at 0,
\* never decrease, are left as they are by view calls, and grow by exactly 1 in
\* every write call that returns a value, the blocked-URL returns of
\* notarize_event and notarize_event_full included.
C28_CountersCountReturningWrites ==
    /\ total_notarizations = 0 /\ total_checks = 0 /\ total_reviews = 0
    /\ [][ /\ total_notarizations' >= total_notarizations
           /\ total_checks' >= total_checks
           /\ total_reviews' >= total_reviews
           /\ last'.op \in CounterViews
                => /\ Counter' = Counter
                   /\ last'.ret = VInt(Counter)
           /\ (last'.op \in CountedWrites /\ last'.outcome = "ok")
                => Counter' = Counter + 1 ]_vars

\* A notarize_event that returned the blocked-URL error, counted as the second
\* call, with no page rendered so far.
C28_Witness ==
    /\ last.op = "notarize_event"
    /\ last.ret = BlockedMessage
    /\ ~last.oracle
    /\ fetches = {}
    /\ total_notarizations = MaxCalls

====
